---- MODULE Spec2Model ----
(***************************************************************************)
(* A model of merge_phase_jsons.py: pair discovery by file name, the merge *)
(* of a Phase 1 and a Phase 2 document into an integrated record with its  *)
(* training hints, and the run of main over the discovered pairs.          *)
(*                                                                         *)
(* File names are sequences of one-character strings, so that stem, glob   *)
(* and str.replace are computed on characters as Python computes them.     *)
(* JSON values are tagged records: None, I(n), S(s), L(seq), D(f) with f a *)
(* function whose DOMAIN is the set of keys present in the dict.           *)
(*                                                                         *)
(* Spec      is a run of main.                                             *)
(* SpecMerge applies merge_json_files to one pair of file contents.        *)
(*                                                                         *)
(* Environment: inside the loop's try block a file may be unreadable or    *)
(* hold invalid JSON and the write of an integrated record may fail; the   *)
(* two writes outside it (mkdir of the output directory, the summary) are  *)
(* taken to succeed.  The --add-prompts option is left out: it adds one    *)
(* field to a record inside the same try block, and printing is not state. *)
(***************************************************************************)
EXTENDS Integers, Sequences, FiniteSets, TLC

VARIABLES
    \* ---- the environment of a run of main
    input_exists,      \* args.input_dir.exists()
    dir_files,         \* names of the files in the input directory
    listing,           \* the order in which the directory lists them
    dry_run,           \* args.dry_run
    output_exists0,    \* whether the output directory existed at start
    \* ---- the file system as the run changes it
    output_exists,     \* whether the output directory exists
    out_files,         \* output directory: file name -> content written
    opened,            \* input files the run has tried to open so far
    summary_writes,    \* number of times merge_summary.json was written
    \* ---- the locals of main
    pc,                \* position in main
    pairs,             \* result of find_json_pairs
    idx,               \* 1-based position of the for loop in pairs
    successful_merges, \* the success counter
    exit_code,         \* <<>> while running, <<c>> once the process ended
    log,               \* per attempted pair: [pair, ok]
    \* ---- one application of merge_json_files
    m_pc,
    m_phase1,          \* content of the Phase 1 file
    m_phase2,          \* content of the Phase 2 file
    m_result           \* what merge_json_files returned or that it raised

main_vars == <<input_exists, dir_files, listing, dry_run, output_exists0,
               output_exists, out_files, opened, summary_writes, pc, pairs,
               idx, successful_merges, exit_code, log>>
merge_vars == <<m_pc, m_phase1, m_phase2, m_result>>
vars == <<main_vars, merge_vars>>

(***************************************************************************)
(* Bounds of the model.                                                    *)
(***************************************************************************)
\* at most this many files in the input directory
MaxFiles == 5
\* at most this many structural elements in a Phase 2 document
MaxElems == 3

(***************************************************************************)
(* Program constants.                                                      *)
(***************************************************************************)
\* grid_dims.get('width_grids', 6)
DefaultWidth == 6
\* grid_dims.get('height_grids', 10)
DefaultHeight == 10
\* if total_grids > 80
AreaThreshold == 80

(***************************************************************************)
(* File names.                                                             *)
(***************************************************************************)
META == <<"_", "m", "e", "t", "a", "d", "a", "t", "a">>
ELEM == <<"_", "e", "l", "e", "m", "e", "n", "t", "s">>
JSON == <<".", "j", "s", "o", "n">>
INTEG == <<"_", "i", "n", "t", "e", "g", "r", "a", "t", "e", "d">>
SUMMARY == <<"m", "e", "r", "g", "e", "_", "s", "u", "m", "m", "a", "r", "y">> \o JSON

EndsWith(s, suf) ==
    /\ Len(s) >= Len(suf)
    /\ SubSeq(s, Len(s) - Len(suf) + 1, Len(s)) = suf

\* directory.glob("*_metadata.json") matches this name
GlobMetadata(name) == EndsWith(name, META \o JSON)

\* 1-based index of the last "." of name, 0 when there is none (str.rfind)
LastDot(name) ==
    LET dots == {i \in 1..Len(name) : name[i] = "."}
    IN  IF dots = {} THEN 0 ELSE CHOOSE i \in dots : \A j \in dots : j <= i

\* PurePath.stem: the name without its last suffix
Stem(name) ==
    LET i == LastDot(name)
    IN  IF 1 < i /\ i < Len(name) THEN SubSeq(name, 1, i - 1) ELSE name

\* str.replace(old, new): every non-overlapping occurrence, left to right
RECURSIVE Replace(_, _, _)
Replace(s, old, new) ==
    IF Len(s) < Len(old) THEN s
    ELSE IF SubSeq(s, 1, Len(old)) = old
         THEN new \o Replace(SubSeq(s, Len(old) + 1, Len(s)), old, new)
         ELSE <<s[1]>> \o Replace(Tail(s), old, new)

\* phase1_file.stem.replace("_metadata", "")
BaseName(phase1_file) == Replace(Stem(phase1_file), META, <<>>)

\* directory / f"{base_name}_elements.json"
Phase2File(phase1_file) == BaseName(phase1_file) \o ELEM \o JSON

\* find_json_pairs: the pairs, in listing order
find_json_pairs(lst, files) ==
    LET phase1_files == SelectSeq(lst, GlobMetadata)
        matched == SelectSeq(phase1_files, LAMBDA f : Phase2File(f) \in files)
    IN  [i \in 1..Len(matched) |-> <<matched[i], Phase2File(matched[i])>>]

(***************************************************************************)
(* JSON values and Python's dict access.                                   *)
(***************************************************************************)
None == [t |-> "None"]
I(n) == [t |-> "int", v |-> n]
S(s) == [t |-> "str", v |-> s]
L(q) == [t |-> "list", v |-> q]
D(f) == [t |-> "dict", v |-> f]
EmptyDict == [k \in {} |-> None]

\* a file that cannot be opened or does not hold valid JSON
Unreadable == [t |-> "unreadable"]
Readable(content) == content.t # "unreadable"

\* only a dict has the method get; x.get on None is an AttributeError
IsDict(x) == x.t = "dict"

\* d.get(k, default) on the mapping d of a dict
PyGet(d, k, default) == IF k \in DOMAIN d THEN d[k] ELSE default

\* what an f-string renders for a value
PyStr(x) == IF x.t = "None" THEN "None"
            ELSE IF x.t = "int" THEN ToString(x.v)
            ELSE x.v

Max(a, b) == IF a >= b THEN a ELSE b

\* what a call returned, or that it raised
Raised(e) == [raised |-> TRUE, error |-> e]
Returned(x) == [raised |-> FALSE, value |-> x]

(***************************************************************************)
(* estimate_room_count, calculate_training_hints, merge_json_files.        *)
(***************************************************************************)
\* el.get('type') == ty
HasType(el, ty) == PyGet(el.v, "type", None) = S(ty)

\* sum(1 for el in elements if el.get('type') == 'balcony')
BalconyCount(elements) ==
    Cardinality({i \in 1..Len(elements) : HasType(elements[i], "balcony")})

\* estimate_room_count with one slip each: a bedroom estimate without the
\* floor of one, a bonus granted at the threshold itself, one bedroom per
\* balcony on top of the first.  The properties below must tell them apart
\* from estimate_room_count.
estimate_room_count_nofloor(elements, grid_dims) ==
    LET bedroom_estimate == BalconyCount(elements)
        total_grids == PyGet(grid_dims.v, "width_grids", I(DefaultWidth)).v
                       * PyGet(grid_dims.v, "height_grids", I(DefaultHeight)).v
    IN  1 + (IF total_grids > AreaThreshold THEN bedroom_estimate + 1
             ELSE bedroom_estimate) + 1

estimate_room_count_atleast(elements, grid_dims) ==
    LET bedroom_estimate == Max(1, BalconyCount(elements))
        total_grids == PyGet(grid_dims.v, "width_grids", I(DefaultWidth)).v
                       * PyGet(grid_dims.v, "height_grids", I(DefaultHeight)).v
    IN  1 + (IF total_grids >= AreaThreshold THEN bedroom_estimate + 1
             ELSE bedroom_estimate) + 1

estimate_room_count_plusone(elements, grid_dims) ==
    LET bedroom_estimate == 1 + BalconyCount(elements)
        total_grids == PyGet(grid_dims.v, "width_grids", I(DefaultWidth)).v
                       * PyGet(grid_dims.v, "height_grids", I(DefaultHeight)).v
    IN  1 + (IF total_grids > AreaThreshold THEN bedroom_estimate + 1
             ELSE bedroom_estimate) + 1

estimate_room_count(elements, grid_dims) ==
    LET base_rooms == 1
        balcony_count == BalconyCount(elements)
        bedroom_estimate == Max(1, balcony_count)
        total_grids == PyGet(grid_dims.v, "width_grids", I(DefaultWidth)).v
                       * PyGet(grid_dims.v, "height_grids", I(DefaultHeight)).v
        bedroom_estimate2 == IF total_grids > AreaThreshold
                             THEN bedroom_estimate + 1
                             ELSE bedroom_estimate
        wet_areas == 1
    IN  base_rooms + bedroom_estimate2 + wet_areas

\* the tally loop over elements, counts being hints['element_counts'] so far
RECURSIVE CountElements(_, _)
CountElements(elements, counts) ==
    IF elements = <<>> THEN counts
    ELSE LET elem_type == PyGet(Head(elements).v, "type", S("unknown")).v
         IN  CountElements(Tail(elements),
                 (elem_type :> (PyGet(counts, elem_type, 0) + 1)) @@ counts)

\* calculate_training_hints.  data always holds the key grid_dimensions, so
\* data.get('grid_dimensions', {}) is the stored value, None included, and
\* grid_dims.get raises on None.
calculate_training_hints(data) ==
    LET grid_dims == PyGet(data, "grid_dimensions", D(EmptyDict))
        elements == PyGet(data, "structural_elements", L(<<>>)).v
    IN  IF ~IsDict(grid_dims) THEN Raised("AttributeError")
        ELSE Returned([
            total_area_grids |->
                PyGet(grid_dims.v, "width_grids", I(0)).v
                * PyGet(grid_dims.v, "height_grids", I(0)).v,
            has_entrance |-> \E i \in 1..Len(elements) : HasType(elements[i], "entrance"),
            has_stair |-> \E i \in 1..Len(elements) : HasType(elements[i], "stair"),
            has_balcony |-> \E i \in 1..Len(elements) : HasType(elements[i], "balcony"),
            element_counts |-> CountElements(elements, EmptyDict),
            estimated_room_count |-> estimate_room_count(elements, grid_dims)])

\* merge_json_files on the contents of the two files, at wall-clock time now
merge_json_files(content1, content2, now) ==
    IF ~Readable(content1) \/ ~Readable(content2) THEN Raised("load")
    ELSE
    LET phase1_data == content1.v
        phase2_data == content2.v
        p2_annotation == PyGet(phase2_data, "annotation_metadata", D(EmptyDict))
        p1_grid == PyGet(phase1_data, "grid_dimensions", D(EmptyDict))
        p1_scale == PyGet(phase1_data, "scale_info", D(EmptyDict))
    IN  IF ~IsDict(p2_annotation) \/ ~IsDict(p1_grid) \/ ~IsDict(p1_scale)
        THEN Raised("AttributeError")
        ELSE
        LET integrated_data == [
                crop_id |-> PyGet(phase1_data, "crop_id", None),
                original_pdf |-> PyGet(phase1_data, "original_pdf", None),
                floor |-> PyGet(phase1_data, "floor", None),
                grid_dimensions |-> PyGet(phase1_data, "grid_dimensions", None),
                scale_info |-> PyGet(phase1_data, "scale_info", None),
                building_context |-> PyGet(phase1_data, "building_context", None),
                grid_module_info |-> PyGet(phase1_data, "grid_module_info", None),
                crop_bounds_in_original |->
                    PyGet(phase1_data, "crop_bounds_in_original", None),
                structural_constraints |->
                    PyGet(phase1_data, "structural_constraints", None),
                floor_requirements |-> PyGet(phase1_data, "floor_requirements", None),
                structural_elements |->
                    PyGet(phase2_data, "structural_elements", L(<<>>)),
                zones |-> PyGet(phase2_data, "zones", L(<<>>)),
                stair_info |-> PyGet(phase2_data, "stair_info", L(<<>>)),
                validation_status |-> PyGet(phase2_data, "validation_status", None),
                timestamps |-> D([
                    phase1_created |-> PyGet(phase1_data, "timestamp", None),
                    phase2_created |-> PyGet(p2_annotation.v, "annotation_time", None),
                    integrated_created |-> S(now)]),
                metadata_version |-> S("integrated_v1.0"),
                annotation_metadata |-> D(
                    [floor_type |-> PyGet(phase1_data, "floor", None),
                     grid_resolution |->
                        S(<<PyStr(PyGet(p1_grid.v, "width_grids", None)), "x",
                            PyStr(PyGet(p1_grid.v, "height_grids", None))>>),
                     drawing_scale |-> PyGet(p1_scale.v, "drawing_scale", None)]
                    @@ p2_annotation.v)]
            hints == calculate_training_hints(integrated_data)
        IN  IF hints.raised THEN hints
            ELSE Returned(("training_hints" :> D(hints.value)) @@ integrated_data)

(***************************************************************************)
(* The inputs the model draws from.                                        *)
(***************************************************************************)
Clock == {"t1", "t2"}
Widths == {8, 9}
Heights == {10, 14}

\* the dicts with key k absent or bound to one of vals
OptKey(k, vals) == {EmptyDict} \cup {k :> x : x \in vals}

GridDicts ==
    {a @@ b : a \in OptKey("width_grids", {I(w) : w \in Widths}),
              b \in OptKey("height_grids", {I(h) : h \in Heights})}

Phase1Docs ==
    {a @@ b @@ c @@ d :
        a \in OptKey("crop_id", {S("x1")}),
        b \in OptKey("floor", {S("2F")}),
        c \in OptKey("grid_dimensions", {D(g) : g \in GridDicts}),
        d \in OptKey("scale_info", {D("drawing_scale" :> S("1:100"))})}

ElementKinds ==
    {D("type" :> S("balcony")), D("type" :> S("entrance")),
     D("type" :> S("stair")), D(EmptyDict)}

ElementSeqs == UNION {[1..n -> ElementKinds] : n \in 0..MaxElems}

Phase2Docs ==
    {a @@ b :
        a \in OptKey("structural_elements", {L(q) : q \in ElementSeqs}),
        b \in OptKey("annotation_metadata",
                     {D("annotation_time" :> S("t0"))})}

Phase1Contents == {Unreadable} \cup {D(doc) : doc \in Phase1Docs}
Phase2Contents == {Unreadable} \cup {D(doc) : doc \in Phase2Docs}

(***************************************************************************)
(* The input directories of the model: a, b with both files, c with its    *)
(* metadata only, and a crop whose base name itself ends in _metadata.     *)
(***************************************************************************)
A_META == <<"a">> \o META \o JSON
A_ELEM == <<"a">> \o ELEM \o JSON
B_META == <<"b">> \o META \o JSON
B_ELEM == <<"b">> \o ELEM \o JSON
C_META == <<"c">> \o META \o JSON
AM_META == <<"a">> \o META \o META \o JSON
AM_ELEM == <<"a">> \o META \o ELEM \o JSON

CandidateSeq == <<A_META, AM_ELEM, B_ELEM, AM_META, C_META, A_ELEM, B_META>>
CandidateNames == {CandidateSeq[i] : i \in 1..Len(CandidateSeq)}

Reverse(q) == [i \in 1..Len(q) |-> q[Len(q) + 1 - i]]

\* the two listing orders the model gives a directory
Listings(files) ==
    LET fwd == SelectSeq(CandidateSeq, LAMBDA f : f \in files)
    IN  {fwd, Reverse(fwd)}

\* the file contents a run of main reads
MainPhase1Contents ==
    {Unreadable,
     D(EmptyDict),
     D([crop_id |-> S("x1"),
        grid_dimensions |-> D([width_grids |-> I(9), height_grids |-> I(10)])])}
MainPhase2Contents ==
    {Unreadable,
     D(EmptyDict),
     D([structural_elements |-> L(<<D("type" :> S("balcony"))>>)])}

(***************************************************************************)
(* main.                                                                   *)
(***************************************************************************)
MainInit ==
    /\ input_exists \in BOOLEAN
    /\ dir_files \in {fs \in SUBSET CandidateNames :
                        /\ Cardinality(fs) <= MaxFiles
                        /\ (~input_exists => fs = {})}
    /\ listing \in Listings(dir_files)
    /\ dry_run \in BOOLEAN
    /\ output_exists0 \in BOOLEAN
    /\ output_exists = output_exists0
    /\ out_files = EmptyDict
    /\ opened = {}
    /\ summary_writes = 0
    /\ pc = "check_input"
    /\ pairs = <<>>
    /\ idx = 1
    /\ successful_merges = 0
    /\ exit_code = <<>>
    /\ log = <<>>

MergeIdle ==
    /\ m_pc = "idle"
    /\ m_phase1 = Unreadable
    /\ m_phase2 = Unreadable
    /\ m_result = Raised("idle")

Init == MainInit /\ MergeIdle

\* if not args.input_dir.exists(): sys.exit(1)
CheckInputDir ==
    /\ pc = "check_input"
    /\ IF ~input_exists
       THEN /\ exit_code' = <<1>>
            /\ pc' = "exit"
       ELSE /\ pc' = "output_dir"
            /\ UNCHANGED exit_code
    /\ UNCHANGED <<input_exists, dir_files, listing, dry_run, output_exists0,
                   output_exists, out_files, opened, summary_writes, pairs,
                   idx, successful_merges, log, merge_vars>>

\* if not args.dry_run and not output_dir.exists()
ShouldCreateOutputDir_always(dry, exists) == ~exists
ShouldCreateOutputDir(dry, exists) == ~dry /\ ~exists

\* output_dir.mkdir(parents=True) when it is to be created
SetupOutputDir ==
    /\ pc = "output_dir"
    /\ output_exists' =
          IF ShouldCreateOutputDir(dry_run, output_exists) THEN TRUE
          ELSE output_exists
    /\ pc' = "find_pairs"
    /\ UNCHANGED <<input_exists, dir_files, listing, dry_run, output_exists0,
                   out_files, opened, summary_writes, pairs, idx,
                   successful_merges, exit_code, log, merge_vars>>

\* if not pairs
NoPairs_never(ps) == FALSE
NoPairs(ps) == ps = <<>>

\* pairs = find_json_pairs(args.input_dir); exit 1 when there is none
FindPairs ==
    /\ pc = "find_pairs"
    /\ pairs' = find_json_pairs(listing, dir_files)
    /\ IF NoPairs(pairs')
       THEN /\ exit_code' = <<1>>
            /\ pc' = "exit"
       ELSE /\ pc' = "loop"
            /\ UNCHANGED exit_code
    /\ idx' = 1
    /\ successful_merges' = 0
    /\ UNCHANGED <<input_exists, dir_files, listing, dry_run, output_exists0,
                   output_exists, out_files, opened, summary_writes, log,
                   merge_vars>>

\* the loop position after the except clause: continue with the next pair
AfterError_break(i, n) == n + 1
AfterError(i, n) == i + 1

\* if args.dry_run: continue
DryRunPair ==
    /\ pc = "loop"
    /\ idx <= Len(pairs)
    /\ dry_run
    /\ idx' = idx + 1
    /\ UNCHANGED <<input_exists, dir_files, listing, dry_run, output_exists0,
                   output_exists, out_files, opened, summary_writes, pc, pairs,
                   successful_merges, exit_code, log, merge_vars>>

\* one iteration of the loop body in a run that is not a dry run: merge, save,
\* count, or the except clause.  The contents of the two files, whether the
\* write succeeds and the clock are the environment's choice.
MergePair ==
    /\ pc = "loop"
    /\ idx <= Len(pairs)
    /\ ~dry_run
    /\ \E content1 \in MainPhase1Contents, content2 \in MainPhase2Contents,
          save_ok \in BOOLEAN, now \in Clock :
          LET phase1_path == pairs[idx][1]
              phase2_path == pairs[idx][2]
              merged == merge_json_files(content1, content2, now)
              output_path == BaseName(phase1_path) \o INTEG \o JSON
          IN  /\ opened' = opened \cup
                    (IF Readable(content1) THEN {phase1_path, phase2_path}
                     ELSE {phase1_path})
              /\ IF ~merged.raised /\ save_ok
                 THEN /\ out_files' = (output_path :> merged.value) @@ out_files
                      /\ successful_merges' = successful_merges + 1
                      /\ idx' = idx + 1
                      /\ log' = Append(log, [pair |-> idx, ok |-> TRUE])
                 ELSE /\ idx' = AfterError(idx, Len(pairs))
                      /\ log' = Append(log, [pair |-> idx, ok |-> FALSE])
                      /\ UNCHANGED <<out_files, successful_merges>>
    /\ UNCHANGED <<input_exists, dir_files, listing, dry_run, output_exists0,
                   output_exists, summary_writes, pc, pairs, exit_code,
                   merge_vars>>

\* if not args.dry_run and successful_merges > 0
ShouldWriteSummary_nocount(dry, n) == ~dry
ShouldWriteSummary(dry, n) == ~dry /\ n > 0

\* the summary of the run, written at wall-clock time now
Summary(now) ==
    [merge_timestamp |-> now,
     input_directory |-> "input_dir",
     output_directory |-> "output_dir",
     total_pairs |-> Len(pairs),
     successful_merges |-> successful_merges,
     merged_files |->
        [i \in 1..successful_merges |-> BaseName(pairs[i][1])]]

\* after the loop: the summary when it is due, and the end of the process
Finish ==
    /\ pc = "loop"
    /\ idx > Len(pairs)
    /\ IF ShouldWriteSummary(dry_run, successful_merges)
       THEN \E now \in Clock :
                /\ out_files' = (SUMMARY :> Summary(now)) @@ out_files
                /\ summary_writes' = summary_writes + 1
       ELSE UNCHANGED <<out_files, summary_writes>>
    /\ exit_code' = <<0>>
    /\ pc' = "exit"
    /\ UNCHANGED <<input_exists, dir_files, listing, dry_run, output_exists0,
                   output_exists, opened, pairs, idx, successful_merges, log,
                   merge_vars>>

Next ==
    \/ CheckInputDir
    \/ SetupOutputDir
    \/ FindPairs
    \/ DryRunPair
    \/ MergePair
    \/ Finish

Spec == Init /\ [][Next]_vars

(***************************************************************************)
(* merge_json_files applied to one pair of file contents.                  *)
(***************************************************************************)
MainIdle ==
    /\ input_exists = FALSE
    /\ dir_files = {}
    /\ listing = <<>>
    /\ dry_run = FALSE
    /\ output_exists0 = FALSE
    /\ output_exists = FALSE
    /\ out_files = EmptyDict
    /\ opened = {}
    /\ summary_writes = 0
    /\ pc = "idle"
    /\ pairs = <<>>
    /\ idx = 1
    /\ successful_merges = 0
    /\ exit_code = <<>>
    /\ log = <<>>

MergeInit ==
    /\ MainIdle
    /\ m_pc = "call"
    /\ m_phase1 \in Phase1Contents
    /\ m_phase2 \in Phase2Contents
    /\ m_result = Raised("idle")

Merge ==
    /\ m_pc = "call"
    /\ \E now \in Clock : m_result' = merge_json_files(m_phase1, m_phase2, now)
    /\ m_pc' = "done"
    /\ UNCHANGED <<m_phase1, m_phase2, main_vars>>

MergeNext == Merge

SpecMerge == MergeInit /\ [][MergeNext]_vars

(***************************************************************************)
(* Properties of a run of main (checked under Spec).                       *)
(***************************************************************************)
\* the log entries of the pairs whose merge and save succeeded
Successes == SelectSeq(log, LAMBDA e : e.ok)
\* the base names of those pairs, in processing order
SuccessBases ==
    [i \in 1..Len(Successes) |-> BaseName(pairs[Successes[i].pair][1])]
SummaryWritten == SUMMARY \in DOMAIN out_files

\* C1: at the end of a run, the summary's merged_files is exactly the base
\* names of the pairs whose merge succeeded, in processing order (so a pair
\* that failed before one that succeeded is not listed).
C1_MergedFilesAreSuccesses ==
    (pc = "exit" /\ SummaryWritten)
        => out_files[SUMMARY].merged_files = SuccessBases

\* C3: in a run that is not a dry run a failing pair never stops the loop:
\* the pairs are attempted once each in discovery order, every pair that did
\* not fail has its <base>_integrated.json in the output directory, the
\* counter ends as the number of pairs that did not fail, and the exit code
\* is 0.
C3_FailureNeverStopsLoop ==
    (~dry_run /\ pc \in {"loop", "exit"} /\ pairs # <<>>) =>
        /\ \A i \in 1..Len(log) : log[i].pair = i
        /\ Len(log) = idx - 1
        /\ pc = "exit" =>
            /\ Len(log) = Len(pairs)
            /\ \A i \in 1..Len(log) :
                  log[i].ok =>
                     (BaseName(pairs[i][1]) \o INTEG \o JSON) \in DOMAIN out_files
            /\ successful_merges = Len(Successes)
            /\ exit_code = <<0>>

\* a run over three pairs in which the first fails and the other two succeed
C3_Witness ==
    /\ pc = "exit"
    /\ ~dry_run
    /\ Len(log) = 3
    /\ ~log[1].ok /\ log[2].ok /\ log[3].ok
    /\ successful_merges = 2
    /\ exit_code = <<0>>

\* C4: in every state of a dry run the file system is as it was at start: the
\* output directory is not created, no input file is opened, and neither an
\* integrated record nor the summary is written.
C4_DryRunLeavesFilesAlone ==
    dry_run =>
        /\ output_exists = output_exists0
        /\ DOMAIN out_files = {}
        /\ opened = {}
        /\ summary_writes = 0

\* a finished dry run over two or more pairs with no output directory
C4_Witness ==
    /\ dry_run
    /\ pc = "exit"
    /\ exit_code = <<0>>
    /\ Len(pairs) >= 2
    /\ idx = Len(pairs) + 1
    /\ ~output_exists0

\* C5: the exit code is 1 when the input directory does not exist, 1 when it
\* exists and holds no metadata/elements pair, 0 otherwise; a run that exits
\* with 1 has merged no pair.
C5_ExitCodes ==
    /\ pc # "exit" => exit_code = <<>>
    /\ pc = "exit" =>
        /\ exit_code =
              IF ~input_exists THEN <<1>>
              ELSE IF find_json_pairs(listing, dir_files) = <<>> THEN <<1>>
              ELSE <<0>>
        /\ exit_code = <<1>> =>
              /\ log = <<>>
              /\ opened = {}
              /\ DOMAIN out_files = {}
              /\ successful_merges = 0

\* the input directory exists and holds a metadata file, yet no pair: exit 1
C5_Witness ==
    /\ pc = "exit"
    /\ input_exists
    /\ \E f \in dir_files : GlobMetadata(f)
    /\ exit_code = <<1>>

\* C6: merge_summary.json is written at most once, only once every pair has
\* been processed, and a finished run has written it exactly when it is not
\* a dry run and some merge succeeded.
C6_SummaryOnceAtEnd ==
    /\ summary_writes <= 1
    /\ SummaryWritten <=> summary_writes = 1
    /\ SummaryWritten => (pc = "exit" /\ Len(log) = Len(pairs))
    /\ pc = "exit" =>
          (SummaryWritten <=> (~dry_run /\ \E i \in 1..Len(log) : log[i].ok))

\* a finished run with a failed and a succeeded pair, and its summary written
C6_Witness ==
    /\ pc = "exit"
    /\ summary_writes = 1
    /\ \E i \in 1..Len(log) : ~log[i].ok
    /\ \E i \in 1..Len(log) : log[i].ok

\* the name without its trailing _metadata.json
StripSuffix(f) == SubSeq(f, 1, Len(f) - Len(META \o JSON))
\* the pairs by the rule of stripping only the trailing suffix
SuffixPairs ==
    {<<f, StripSuffix(f) \o ELEM \o JSON>> :
        f \in {g \in dir_files :
                  /\ GlobMetadata(g)
                  /\ (StripSuffix(g) \o ELEM \o JSON) \in dir_files}}

\* C7: find_json_pairs returns exactly one pair (F, <base>_elements.json) for
\* each <base>_metadata.json whose <base>_elements.json exists, <base> being
\* F's name without the trailing _metadata.json only, and no other pair.
C7_PairsStripOnlyTheSuffix ==
    pc \in {"loop", "exit"} =>
        /\ {pairs[i] : i \in 1..Len(pairs)} = SuffixPairs
        /\ Len(pairs) = Cardinality(SuffixPairs)

(***************************************************************************)
(* Properties of merge_json_files (checked under SpecMerge).               *)
(***************************************************************************)
MergeReturned == m_pc = "done" /\ ~m_result.raised
Hints == m_result.value["training_hints"].v

\* the inputs, read off the two documents
InputElements ==
    IF "structural_elements" \in DOMAIN m_phase2.v
    THEN m_phase2.v["structural_elements"].v ELSE <<>>
InputBalconies ==
    Cardinality({i \in 1..Len(InputElements) :
                    /\ "type" \in DOMAIN InputElements[i].v
                    /\ InputElements[i].v["type"].v = "balcony"})
HasGridDimensions == "grid_dimensions" \in DOMAIN m_phase1.v
HasDim(k) == HasGridDimensions /\ k \in DOMAIN m_phase1.v["grid_dimensions"].v
Dim(k, absent) ==
    IF HasDim(k) THEN m_phase1.v["grid_dimensions"].v[k].v ELSE absent
\* the area the room estimate uses
EstimateArea == Dim("width_grids", 6) * Dim("height_grids", 10)

\* C2: for readable documents with any subset of the optional keys absent,
\* merge_json_files does not raise; each absent field of the record is null
\* or empty, and total_area_grids is 0 when grid dimensions are missing.
C2_AbsentKeysNeverRaise ==
    (m_pc = "done" /\ Readable(m_phase1) /\ Readable(m_phase2)) =>
        /\ ~m_result.raised
        /\ ~HasGridDimensions =>
              /\ m_result.value["grid_dimensions"] = None
              /\ Hints.total_area_grids = 0
        /\ "scale_info" \notin DOMAIN m_phase1.v =>
              m_result.value["scale_info"] = None
        /\ "structural_elements" \notin DOMAIN m_phase2.v =>
              m_result.value["structural_elements"] = L(<<>>)

\* C8 as stated: with the grid area at most 80, no balcony gives 3 rooms, two
\* give 5, and each further balcony one more.
C8_ZeroToTwoGivesThreeToFive ==
    (MergeReturned /\ EstimateArea <= 80) =>
        /\ InputBalconies = 0 => Hints.estimated_room_count = 3
        /\ InputBalconies >= 2 => Hints.estimated_room_count = InputBalconies + 3

\* C8 amended: with the grid area at most 80, no balcony and one balcony both
\* give 3 rooms, two give 4, and each further balcony one more.
C8_ZeroToTwoGivesThreeToFour ==
    (MergeReturned /\ EstimateArea <= 80) =>
        /\ InputBalconies <= 1 => Hints.estimated_room_count = 3
        /\ InputBalconies >= 1 => Hints.estimated_room_count = InputBalconies + 2

\* three balconies on an 8x10 grid: 5 rooms
C8_Witness ==
    /\ MergeReturned
    /\ HasDim("width_grids") /\ HasDim("height_grids")
    /\ EstimateArea = 80
    /\ InputBalconies = 3
    /\ Hints.estimated_room_count = 5

\* C9: every record a merge returns has estimated_room_count >= 3.
C9_AtLeastThreeRooms ==
    MergeReturned => Hints.estimated_room_count >= 3

\* a record without balconies and without either grid dimension: 3 rooms
C9_Witness ==
    /\ MergeReturned
    /\ InputBalconies = 0
    /\ Len(InputElements) > 0
    /\ HasGridDimensions
    /\ ~HasDim("width_grids") /\ ~HasDim("height_grids")
    /\ Hints.estimated_room_count = 3

\* C10: estimated_room_count is 1 + max(1, balconies) + (1 if the area is
\* over 80) + 1, an absent width counting 6 and an absent height 10, while
\* total_area_grids of the same record counts an absent dimension as 0.
C10_RoomCountFormula ==
    MergeReturned =>
        /\ Hints.estimated_room_count =
              1 + (IF InputBalconies > 1 THEN InputBalconies ELSE 1)
                + (IF EstimateArea > 80 THEN 1 ELSE 0) + 1
        /\ Hints.total_area_grids = Dim("width_grids", 0) * Dim("height_grids", 0)

\* width absent, height 14: the estimate counts 6x14 = 84 > 80, the area hint 0
C10_Witness ==
    /\ MergeReturned
    /\ ~HasDim("width_grids")
    /\ Dim("height_grids", 0) = 14
    /\ InputBalconies = 0
    /\ Hints.estimated_room_count = 4
    /\ Hints.total_area_grids = 0

====
